---- MODULE Spec2Model ----
(***************************************************************************)
(* 4E-Manager: an express server that fetches a product variant from a     *)
(* representative Shopify shop, keeps it in an in-memory snapshot keyed by *)
(* SKU and pushes row changes to the selected shops.                       *)
(*                                                                         *)
(* src/index.js holds two prototypes of the server one after the other     *)
(* (lines 1-140 and lines 142-320).  A process runs one of them; the       *)
(* variable `variant` says which.                                          *)
(*                                                                         *)
(* JavaScript strings that the code splits, interpolates or compares are   *)
(* sequences of one-character strings.  A handler runs without             *)
(* interruption from one `await` to the next, so every action is one such  *)
(* run.                                                                    *)
(***************************************************************************)
EXTENDS Integers, Sequences, FiniteSets, TLC

VARIABLES
  variant,         \* 1: the server of lines 1-140, 2: the server of lines 142-320
  config,          \* what the environment holds for the shop configuration
  proc,            \* "boot", "listening" or "exited"
  memorySnapshot,  \* the object memorySnapshot: own keys -> stored entry
  fet,             \* the /fetch request being served
  upd,             \* the /update request being served
  calls,           \* the axios.put calls issued by the current /update request
  fetchedIds       \* history: successfully fetched sku -> numeric ids stored for it

vars == <<variant, config, proc, memorySnapshot, fet, upd, calls, fetchedIds>>

-----------------------------------------------------------------------------
(* Bounds *)

\* longest updatedRows list of a request
MaxRows == 2
\* longest selectedShops list of a request
MaxShops == 2
\* most (row, shop) pairs of a request: Len(updatedRows) * Len(selectedShops)
MaxPairs == 3

-----------------------------------------------------------------------------
(* Strings *)

SKU123 == <<"S", "K", "U", "1", "2", "3">>
SkuOther == <<"A", "7">>
\* a key every object inherits from Object.prototype
SkuInherited == <<"c", "o", "n", "s", "t", "r", "u", "c", "t", "o", "r">>
UndefinedText == <<"u", "n", "d", "e", "f", "i", "n", "e", "d">>
EmptyString == <<>>

SKUs == {SKU123, SkuOther, SkuInherited}
\* the skus asked of /fetch
FetchSkus == {SKU123, SkuOther}

\* ids the representative shop may return for a variant
GidA == <<"g", "i", "d", ":", "/", "/", "s", "/", "P", "V", "/", "4", "2">>
GidPlain == <<"9", "0">>
UpstreamIds == {GidA, GidPlain}

ShopNames == {"SI", "HR", "XX"}

\* String.prototype.split(sep) for a one-character separator
RECURSIVE Split(_, _)
Split(s, sep) ==
  IF \A k \in 1..Len(s) : s[k] # sep
    THEN <<s>>
    ELSE LET p == CHOOSE k \in 1..Len(s) :
                    s[k] = sep /\ \A m \in 1..(k - 1) : s[m] # sep
         IN <<SubSeq(s, 1, p - 1)>> \o Split(SubSeq(s, p + 1, Len(s)), sep)

\* Array.prototype.pop() on a non-empty array: its last element
Pop(a) == a[Len(a)]

NumericVariantIdOf(id) == Pop(Split(id, "/"))

-----------------------------------------------------------------------------
(* Shop registry *)

SHOPIFY_SHOPS ==
  << [name |-> "SI", domain |-> "si.myshopify.com"],
     [name |-> "HR", domain |-> "hr.myshopify.com"] >>

\* SHOPIFY_SHOPS.find(s => s.name === name): index of the first match, 0 if none
FindShop(name) ==
  IF \E k \in 1..Len(SHOPIFY_SHOPS) : SHOPIFY_SHOPS[k].name = name
    THEN CHOOSE k \in 1..Len(SHOPIFY_SHOPS) :
           /\ SHOPIFY_SHOPS[k].name = name
           /\ \A m \in 1..(k - 1) : SHOPIFY_SHOPS[m].name # name
    ELSE 0

REPRESENTATIVE_SHOP == FindShop("SI")

-----------------------------------------------------------------------------
(* The snapshot object *)

EmptyObject == [k \in {} |-> 0]

\* keys found on Object.prototype when an object has no own key of that name
ObjectPrototypeKeys == {SkuInherited}

\* memorySnapshot[sku]: the own entry, else an inherited member, else undefined
Get(obj, key) ==
  IF key \in DOMAIN obj
    THEN [truthy |-> TRUE, hasNumericVariantId |-> obj[key].hasNumericVariantId,
          numericVariantId |-> obj[key].numericVariantId]
    ELSE IF key \in ObjectPrototypeKeys
      THEN [truthy |-> TRUE, hasNumericVariantId |-> FALSE,
            numericVariantId |-> EmptyString]
      ELSE [truthy |-> FALSE, hasNumericVariantId |-> FALSE,
            numericVariantId |-> EmptyString]

\* obj = { [key]: value }
PutReplacing(obj, key, value) == [k \in {key} |-> value]

\* obj[key] = value
Put(obj, key, value) ==
  [k \in (DOMAIN obj) \cup {key} |-> IF k = key THEN value ELSE obj[k]]

-----------------------------------------------------------------------------
(* Startup *)

\* SHOPIFY_SHOPS in the environment: a JSON array holding the representative shop;
\* a value JSON.parse rejects; JSON that is not an array; an array without the
\* representative shop
Configs == {"ok", "malformed", "notArray", "noRepresentative"}

\* no response sent yet; `results` is the result list a response carries
NoResponse == [status |-> 0, body |-> "none", detail |-> "none", results |-> <<>>]

IdleFetch ==
  [pc |-> "idle", hasSku |-> FALSE, sku |-> EmptyString, upstream |-> "none",
   queries |-> 0, resp |-> NoResponse]

IdleUpdate ==
  [pc |-> "idle", hasRows |-> FALSE, hasShops |-> FALSE, rows |-> <<>>,
   shops |-> <<>>, i |-> 0, j |-> 0, fetched |-> Get(EmptyObject, EmptyString),
   results |-> <<>>, reads |-> 0, hit |-> {}, resp |-> NoResponse]

Init ==
  /\ variant \in {1, 2}
  /\ config \in Configs
  /\ proc = "boot"
  /\ memorySnapshot = EmptyObject
  /\ fet = IdleFetch
  /\ upd = IdleUpdate
  /\ calls = <<>>
  /\ fetchedIds = EmptyObject

\* a startup that only logs when the representative shop is not found
StartupOutcomeLenient(cfg) ==
  IF cfg = "malformed" THEN "exited"
  ELSE IF cfg = "notArray" THEN "exited"
  ELSE "listening"

\* the module body up to app.listen: parse the shops (process.exit(1) in the catch),
\* find the representative (a TypeError ends the process when the parsed value has
\* no find; process.exit(1) when nothing is found)
StartupOutcome(cfg) ==
  IF cfg = "malformed" THEN "exited"
  ELSE IF cfg = "notArray" THEN "exited"
  ELSE IF cfg = "noRepresentative" THEN "exited"
  ELSE "listening"

Startup ==
  /\ proc = "boot"
  /\ proc' = StartupOutcome(config)
  /\ UNCHANGED <<variant, config, memorySnapshot, fet, upd, calls, fetchedIds>>

\* a request has been answered and its record is still held
Answered == fet.pc = "done" \/ upd.pc = "done"

\* a handler's locals are gone once its response is sent: the record of an answered
\* request is dropped before the server takes its next step
Forget(r, idle) == IF r.pc = "done" THEN idle ELSE r

Release ==
  /\ Answered
  /\ fet' = Forget(fet, IdleFetch)
  /\ upd' = Forget(upd, IdleUpdate)
  /\ calls' = IF upd.pc = "done" THEN <<>> ELSE calls
  /\ UNCHANGED <<variant, config, proc, memorySnapshot, fetchedIds>>

-----------------------------------------------------------------------------
(* GET /fetch *)

\* what the awaited axios.post may bring back
FetchReplies ==
  {"found", "empty", "errors", "noData", "networkError", "httpError"}

\* the row of sampleData the first server stores; it carries no numericVariantId
SampleEntry ==
  [id |-> EmptyString, hasNumericVariantId |-> FALSE, numericVariantId |-> EmptyString]

\* the entry written on success: { ...variant, numericVariantId }
FetchedEntry(id) ==
  [id |-> id, hasNumericVariantId |-> TRUE, numericVariantId |-> NumericVariantIdOf(id)]

\* history: sku was fetched successfully and the numeric ids `ids` were stored for it
NoteFetched(h, sku, ids) ==
  Put(h, sku, (IF sku \in DOMAIN h THEN h[sku] ELSE {}) \cup ids)

\* the snapshot after the first server's handler: reset, then the sample rows
SampleSnapshot(snap) == Put(EmptyObject, SKU123, SampleEntry)

\* first server: the handler ignores the query, stores the sample data and answers
FetchSample ==
  /\ variant = 1
  /\ proc = "listening"
  /\ ~Answered
  /\ fet.pc = "idle"
  /\ \E hasSku \in BOOLEAN, sku \in FetchSkus \cup {EmptyString} :
       /\ hasSku \/ sku = EmptyString
       /\ fet' = [IdleFetch EXCEPT !.pc = "done", !.hasSku = hasSku, !.sku = sku,
                    !.resp = [NoResponse EXCEPT !.status = 200,
                                !.body = "Fetch completed successfully.",
                                !.detail = "sampleData"]]
  /\ memorySnapshot' = SampleSnapshot(memorySnapshot)
  /\ fetchedIds' = NoteFetched(fetchedIds, SKU123, {})
  /\ UNCHANGED <<variant, config, proc, upd, calls>>

\* second server: !sku
MissingSku(hasSku, sku) == ~hasSku \/ sku = EmptyString

\* second server, from the start of the handler to the awaited axios.post
FetchBegin(hasSku, sku) ==
  IF MissingSku(hasSku, sku)
    THEN [IdleFetch EXCEPT !.pc = "done", !.hasSku = hasSku, !.sku = sku,
            !.resp = [NoResponse EXCEPT !.status = 400,
                        !.body = "Missing 'sku' query parameter."]]
    ELSE [IdleFetch EXCEPT !.pc = "await", !.hasSku = hasSku, !.sku = sku,
            !.queries = 1]

FetchStart ==
  /\ variant = 2
  /\ proc = "listening"
  /\ ~Answered
  /\ fet.pc = "idle"
  /\ \E hasSku \in BOOLEAN, sku \in FetchSkus \cup {EmptyString} :
       /\ hasSku \/ sku = EmptyString
       /\ fet' = FetchBegin(hasSku, sku)
  /\ UNCHANGED <<variant, config, proc, memorySnapshot, upd, calls, fetchedIds>>

\* the response the rest of the handler sends for an upstream reply
FetchResponse(reply) ==
  CASE reply = "errors" ->
         [NoResponse EXCEPT !.status = 500, !.body = "data.errors"]
    [] reply = "empty" ->
         [NoResponse EXCEPT !.status = 404, !.body = "SKU not found"]
    [] reply = "found" ->
         [NoResponse EXCEPT !.status = 200, !.body = "Fetch completed successfully.",
                            !.detail = "variant"]
    [] OTHER ->
         [NoResponse EXCEPT !.status = 500, !.body = "Fetch failed",
                            !.detail = "err.message"]

\* a handler that drops the sku's entry when the fetch does not find the variant
FetchStoreEvicting(snap, sku, reply, id) ==
  IF reply = "found"
    THEN Put(snap, sku, FetchedEntry(id))
    ELSE [k \in (DOMAIN snap) \ {sku} |-> snap[k]]

\* a handler that stores the entry before it looks at data.errors
FetchStoreEarly(snap, sku, reply, id) ==
  IF reply \in {"found", "errors"} THEN Put(snap, sku, FetchedEntry(id)) ELSE snap

\* the snapshot after the rest of the handler has run
FetchStore(snap, sku, reply, id) ==
  IF reply = "found" THEN Put(snap, sku, FetchedEntry(id)) ELSE snap

\* second server: the awaited axios.post settles and the handler runs to its end
FetchReturn ==
  /\ ~Answered
  /\ fet.pc = "await"
  /\ \E reply \in FetchReplies, id \in UpstreamIds :
       /\ reply # "found" => id = GidA
       /\ fet' = [fet EXCEPT !.pc = "done", !.upstream = reply,
                             !.resp = FetchResponse(reply)]
       /\ memorySnapshot' = FetchStore(memorySnapshot, fet.sku, reply, id)
       /\ fetchedIds' = IF reply = "found"
                          THEN NoteFetched(fetchedIds, fet.sku, {NumericVariantIdOf(id)})
                          ELSE fetchedIds
  /\ UNCHANGED <<variant, config, proc, upd, calls>>

-----------------------------------------------------------------------------
(* POST /update *)

SeqsUpTo(S, n) == UNION {[1..k -> S] : k \in 0..n}

\* the rows a request may carry; rowNumber is the caller's own label
Rows ==
  { [sku |-> SKU123, rowNumber |-> 5],
    [sku |-> SkuOther, rowNumber |-> 2],
    [sku |-> SkuInherited, rowNumber |-> 9] }

\* how an awaited axios.put may settle: resolved, rejected without a response,
\* rejected with a response that has data (with or without an errors field),
\* rejected with a response whose data is null
CallOutcomes == {"ok", "noResponse", "response", "responseNoData"}

SkipMessage == "SKU not found in snapshot, skipping update."

\* the result pushed for a row whose sku is not in the snapshot;
\* ri, sj record the position (row, shop) the result belongs to
SkipResult(u) ==
  [sku |-> u.rows[u.i].sku, rowNumber |-> u.rows[u.i].rowNumber,
   shops |-> u.shops, shopsDefined |-> u.hasShops, shop |-> "",
   message |-> SkipMessage, ri |-> u.i, sj |-> 0]

\* the result pushed after the call to shop u.shops[u.j] for row u.rows[u.i]
CallResult(u, message) ==
  [sku |-> u.rows[u.i].sku, rowNumber |-> u.rows[u.i].rowNumber,
   shops |-> <<>>, shopsDefined |-> FALSE, shop |-> u.shops[u.j],
   message |-> message, ri |-> u.i, sj |-> u.j]

\* updateResults.unshift(r)
UnshiftResult(results, r) == <<r>> \o results

\* updateResults.push(r)
PushResult(results, r) == Append(results, r)

\* `${x}` for x = fetched.numericVariantId
Interpolate(fetched) ==
  IF fetched.hasNumericVariantId THEN fetched.numericVariantId ELSE UndefinedText

\* what the shop url names the variant by
ShopUrlRef(v, sku, fetched) == IF v = 1 THEN sku ELSE Interpolate(fetched)

\* the overall error response of the outer catch
UpdateFailed(v) ==
  IF v = 1
    THEN [NoResponse EXCEPT !.status = 500, !.body = "Update failed."]
    ELSE [NoResponse EXCEPT !.status = 500, !.body = "Update failed",
                            !.detail = "err.message"]

\* res.json({ message: 'Update process completed.', results: updateResults })
UpdateCompleted(results) ==
  [NoResponse EXCEPT !.status = 200, !.body = "Update process completed.",
                     !.results = results]

\* history: the rows whose sku had an entry of its own in the snapshot when read
Hit(hit, u, snap) ==
  IF u.rows[u.i].sku \in DOMAIN snap THEN hit \cup {u.i} ELSE hit

\* the row and shop loops, run from position (u.pc, u.i, u.j) to the next awaited
\* axios.put (pc = "await") or to the response (pc = "done")
RECURSIVE RunUpdate(_, _, _)
RunUpdate(v, u, snap) ==
  IF u.pc = "row"
    THEN IF u.i > Len(u.rows)
      THEN [u EXCEPT !.pc = "done", !.resp = UpdateCompleted(u.results)]
      ELSE LET fetched == Get(snap, u.rows[u.i].sku) IN
        IF ~fetched.truthy
          THEN RunUpdate(v, [u EXCEPT !.results = PushResult(@, SkipResult(u)),
                                      !.reads = @ + 1, !.i = @ + 1], snap)
          ELSE IF ~u.hasShops
            THEN [u EXCEPT !.pc = "done", !.reads = @ + 1, !.hit = Hit(@, u, snap),
                           !.resp = UpdateFailed(v)]
            ELSE RunUpdate(v, [u EXCEPT !.pc = "shop", !.reads = @ + 1,
                                        !.hit = Hit(@, u, snap),
                                        !.fetched = fetched, !.j = 1], snap)
    ELSE IF u.j > Len(u.shops)
      THEN RunUpdate(v, [u EXCEPT !.pc = "row", !.i = @ + 1], snap)
      ELSE IF FindShop(u.shops[u.j]) = 0
        THEN RunUpdate(v, [u EXCEPT !.j = @ + 1], snap)
        ELSE [u EXCEPT !.pc = "await"]

\* second server: !updatedRows || !selectedShops
MissingField(v, hasRows, hasShops) == v = 2 /\ (~hasRows \/ ~hasShops)

\* the handler from its start to the first awaited axios.put or to the response
UpdateBegin(v, hasRows, hasShops, rows, shops, snap) ==
  LET u == [IdleUpdate EXCEPT !.hasRows = hasRows, !.hasShops = hasShops,
                              !.rows = rows, !.shops = shops]
  IN IF MissingField(v, hasRows, hasShops)
       THEN [u EXCEPT !.pc = "done",
               !.resp = [NoResponse EXCEPT !.status = 400,
                           !.body = "Missing 'updatedRows' or 'selectedShops' in request body."]]
       ELSE IF ~hasRows
         THEN [u EXCEPT !.pc = "done", !.resp = UpdateFailed(v)]
         ELSE RunUpdate(v, [u EXCEPT !.pc = "row", !.i = 1], snap)

\* the axios.put issued at position (u.i, u.j)
PutCall(v, u) ==
  [ri |-> u.i, sj |-> u.j, shop |-> u.shops[u.j],
   domain |-> SHOPIFY_SHOPS[FindShop(u.shops[u.j])].domain,
   sku |-> u.rows[u.i].sku,
   ref |-> ShopUrlRef(v, u.rows[u.i].sku, u.fetched),
   outcome |-> "pending"]

\* the calls issued so far, once the handler has run to state u
Issued(v, cs, u) == IF u.pc = "await" THEN Append(cs, PutCall(v, u)) ELSE cs

\* the request bodies tried: each field present or absent, the lists within the bounds
UpdateBodies ==
  { b \in [hasRows : BOOLEAN, hasShops : BOOLEAN,
           rows : SeqsUpTo(Rows, MaxRows), shops : SeqsUpTo(ShopNames, MaxShops)] :
      /\ Len(b.rows) * Len(b.shops) <= MaxPairs
      /\ ~b.hasRows => b.rows = <<>>
      /\ ~b.hasShops => b.shops = <<>> }

UpdateStart ==
  /\ proc = "listening"
  /\ ~Answered
  /\ upd.pc = "idle"
  /\ \E b \in UpdateBodies :
       upd' = UpdateBegin(variant, b.hasRows, b.hasShops, b.rows, b.shops, memorySnapshot)
  /\ calls' = Issued(variant, <<>>, upd')
  /\ UNCHANGED <<variant, config, proc, memorySnapshot, fet, fetchedIds>>

\* the message of the result pushed in the inner catch
FailureMessage(outcome) ==
  IF outcome = "response"
    THEN "Update failed: JSON.stringify(err.response.data.errors)"
    ELSE "Update failed: err.message"

\* a handler that sends the same put again when it was rejected without a response
AfterCallRetrying(v, u, outcome, snap) ==
  IF outcome = "ok"
    THEN RunUpdate(v, [u EXCEPT !.pc = "shop", !.j = @ + 1,
                         !.results = PushResult(@, CallResult(u, "Update successful"))],
                   snap)
    ELSE IF outcome = "responseNoData"
      THEN [u EXCEPT !.pc = "done", !.resp = UpdateFailed(v)]
      ELSE IF outcome = "noResponse"
        THEN u
        ELSE RunUpdate(v, [u EXCEPT !.pc = "shop", !.j = @ + 1,
                             !.results = PushResult(@, CallResult(u, FailureMessage(outcome)))],
                       snap)

\* the handler from the settling of the awaited axios.put to the next one or to
\* the response
AfterCall(v, u, outcome, snap) ==
  IF outcome = "ok"
    THEN RunUpdate(v, [u EXCEPT !.pc = "shop", !.j = @ + 1,
                         !.results = PushResult(@, CallResult(u, "Update successful"))],
                   snap)
    ELSE IF outcome = "responseNoData"
      THEN [u EXCEPT !.pc = "done", !.resp = UpdateFailed(v)]
      ELSE RunUpdate(v, [u EXCEPT !.pc = "shop", !.j = @ + 1,
                           !.results = PushResult(@, CallResult(u, FailureMessage(outcome)))],
                     snap)

\* a loop that does not await: the put in flight is left unsettled
SettleNone(cs, outcome) == cs

\* the awaited axios.put, the last one issued, settles
Settle(cs, outcome) == [cs EXCEPT ![Len(cs)].outcome = outcome]

\* a handler that drops the row's entry from the snapshot once its put has settled
UpdateReturnWriting ==
  /\ ~Answered
  /\ upd.pc = "await"
  /\ \E outcome \in CallOutcomes :
       /\ upd' = AfterCall(variant, upd, outcome, memorySnapshot)
       /\ calls' = Issued(variant, Settle(calls, outcome), upd')
  /\ memorySnapshot' =
       [k \in (DOMAIN memorySnapshot) \ {upd.rows[upd.i].sku} |-> memorySnapshot[k]]
  /\ UNCHANGED <<variant, config, proc, fet, fetchedIds>>

\* the awaited axios.put settles and the handler runs on
UpdateReturn ==
  /\ ~Answered
  /\ upd.pc = "await"
  /\ \E outcome \in CallOutcomes :
       /\ upd' = AfterCall(variant, upd, outcome, memorySnapshot)
       /\ calls' = Issued(variant, Settle(calls, outcome), upd')
  /\ UNCHANGED <<variant, config, proc, memorySnapshot, fet, fetchedIds>>

-----------------------------------------------------------------------------

Next ==
  \/ Startup
  \/ FetchSample
  \/ FetchStart
  \/ FetchReturn
  \/ UpdateStart
  \/ UpdateReturn
  \/ Release

Spec == Init /\ [][Next]_vars

\* every awaited call settles (axios resolves or rejects the promise and the event
\* loop resumes the handler), and a sent response ends its request; the fairness
\* of the two returns is strong because a return waits while the record of an
\* answered request is being dropped, which other requests can make happen again
\* and again
FairSpec ==
  /\ Spec
  /\ SF_vars(FetchReturn)
  /\ SF_vars(UpdateReturn)
  /\ WF_vars(Release)

-----------------------------------------------------------------------------
(* Vocabulary of the properties *)

\* the shop name resolves in the registry
Resolvable(name) == FindShop(name) # 0

\* positions (row, shop) in processing order
Before(i1, j1, i2, j2) == i1 < i2 \/ (i1 = i2 /\ j1 < j2)

\* the current update request is well formed and has been answered
UpdateAnswered == upd.pc = "done" /\ upd.hasRows /\ upd.hasShops

\* row i of the current update request has been read by the row loop
RowRead(i) == i <= upd.i

\* row i's sku is in the Snapshot Store: it was when the row was read or, for a row
\* the loop never reached, it is now
RowCached(i) ==
  IF RowRead(i) THEN i \in upd.hit ELSE upd.rows[i].sku \in DOMAIN memorySnapshot

CallsAt(i, j) == {k \in 1..Len(calls) : calls[k].ri = i /\ calls[k].sj = j}

ResultsAt(list, i, j) == {k \in 1..Len(list) : list[k].ri = i /\ list[k].sj = j}

RowResults(list, i) == {k \in 1..Len(list) : list[k].ri = i}

-----------------------------------------------------------------------------
(* C1: every outbound update call for a sku that was fetched successfully names
   the variant by a numeric id stored for that sku at fetch time, and never by
   the raw sku. *)
C1_UpdateUsesNumericId ==
  \A k \in 1..Len(calls) :
    calls[k].sku \in DOMAIN fetchedIds =>
      /\ calls[k].ref \in fetchedIds[calls[k].sku]
      /\ calls[k].ref # calls[k].sku

(* C2: a row whose sku was never fetched gets no outbound call, and once the
   request is answered exactly one result: the skip result with the row's sku
   and rowNumber and the full list of requested shops. *)
C2_UnfetchedRowSkipped ==
  /\ \A k \in 1..Len(calls) : calls[k].sku \in DOMAIN fetchedIds
  /\ UpdateAnswered =>
       \A i \in 1..Len(upd.rows) :
         upd.rows[i].sku \notin DOMAIN fetchedIds =>
           /\ Cardinality(RowResults(upd.resp.results, i)) = 1
           /\ \A k \in RowResults(upd.resp.results, i) :
                /\ upd.resp.results[k].sku = upd.rows[i].sku
                /\ upd.resp.results[k].rowNumber = upd.rows[i].rowNumber
                /\ upd.resp.results[k].shopsDefined
                /\ upd.resp.results[k].shops = upd.shops
                /\ upd.resp.results[k].message = SkipMessage

(* C3: a failed call does not stop the request: once the request is answered,
   every later resolvable shop of the same row and every resolvable shop of
   every later cached row has been called. *)
C3_FailureDoesNotStop ==
  UpdateAnswered =>
    \A k \in 1..Len(calls) :
      calls[k].outcome # "ok" =>
        \A i \in 1..Len(upd.rows), j \in 1..Len(upd.shops) :
          ( /\ Before(calls[k].ri, calls[k].sj, i, j)
            /\ Resolvable(upd.shops[j])
            /\ (i = calls[k].ri \/ RowCached(i)) )
          => CallsAt(i, j) # {}

(* C4: a well-formed update request is answered 200 'Update process completed.'
   with the full result list, whatever way its outbound calls failed. *)
C4_CallFailuresNeverFailRequest ==
  UpdateAnswered =>
    /\ upd.resp.status = 200
    /\ upd.resp.body = "Update process completed."
    /\ upd.resp.results = upd.results

(* C5: for a row whose sku is in the Snapshot Store the answer holds exactly one
   result per resolvable target name, and no result and no call for a name
   that does not resolve. *)
C5_OneResultPerResolvableShop ==
  UpdateAnswered =>
    \A i \in 1..Len(upd.rows) :
      RowCached(i) =>
        \A j \in 1..Len(upd.shops) :
          IF Resolvable(upd.shops[j])
            THEN Cardinality(ResultsAt(upd.resp.results, i, j)) = 1
            ELSE ResultsAt(upd.resp.results, i, j) = {} /\ CallsAt(i, j) = {}

(* C6: results are listed, and calls issued, in processing order: by row, and
   within a row by target shop; the answer carries the list in that order. *)
C6_ResultsInRowShopOrder ==
  /\ \A a, b \in 1..Len(upd.results) :
       a < b => Before(upd.results[a].ri, upd.results[a].sj,
                       upd.results[b].ri, upd.results[b].sj)
  /\ \A a, b \in 1..Len(calls) :
       a < b => Before(calls[a].ri, calls[a].sj, calls[b].ri, calls[b].sj)
  /\ (upd.pc = "done" /\ upd.resp.status = 200) => upd.resp.results = upd.results

\* an answered request with a failed call followed by a later result
C6_Witness ==
  /\ upd.pc = "done" /\ upd.resp.status = 200
  /\ Len(upd.resp.results) >= 2
  /\ Len(calls) >= 2
  /\ calls[1].outcome = "noResponse"

(* C7: each (cached row, resolvable shop) pair gets exactly one outbound call,
   and the request issues no other call. *)
C7_ExactlyOneCallPerPair ==
  UpdateAnswered =>
    /\ \A i \in 1..Len(upd.rows), j \in 1..Len(upd.shops) :
         (RowCached(i) /\ Resolvable(upd.shops[j])) => Cardinality(CallsAt(i, j)) = 1
    /\ Len(calls) =
         Cardinality({p \in (1..Len(upd.rows)) \X (1..Len(upd.shops)) :
                        RowCached(p[1]) /\ Resolvable(upd.shops[p[2]])})

(* C8: a fetch whose upstream query matches no variant answers 404 'SKU not
   found' and leaves the Snapshot Store as it was. *)
C8_NotFoundLeavesSnapshot ==
  [][ (fet.pc = "await" /\ fet'.pc = "done" /\ fet'.upstream = "empty")
        => /\ fet'.resp.status = 404
           /\ fet'.resp.body = "SKU not found"
           /\ memorySnapshot' = memorySnapshot ]_vars

\* a not-found answer for a sku that has an entry from an earlier fetch
C8_Witness ==
  /\ fet.pc = "done" /\ fet.upstream = "empty"
  /\ fet.resp.status = 404
  /\ fet.sku \in DOMAIN memorySnapshot
  /\ fet.sku \in DOMAIN fetchedIds

(* C9: an update request that omits selectedShops or updatedRows is answered
   400 before any work: no snapshot read, no outbound call, no result. *)
C9_MissingFieldRejected ==
  (upd.pc # "idle" /\ (~upd.hasRows \/ ~upd.hasShops)) =>
    /\ upd.pc = "done"
    /\ upd.resp.status = 400
    /\ upd.reads = 0
    /\ calls = <<>>
    /\ upd.results = <<>>

(* C10: a fetch request without a sku parameter is answered 400, issues no
   query to the representative shop and leaves the Snapshot Store unchanged. *)
C10_MissingSkuRejected ==
  [][ (fet.pc = "idle" /\ fet'.pc # "idle" /\ ~fet'.hasSku)
        => /\ fet'.pc = "done"
           /\ fet'.resp.status = 400
           /\ fet'.queries = 0
           /\ memorySnapshot' = memorySnapshot ]_vars

(* C11: the three kinds of fetch failure are told apart by the response: no
   matching variant answers 404; an error reported by the upstream API, in a
   2xx reply or in a failed HTTP response, answers with the upstream's errors;
   a network failure answers with the transport error; and the response of
   one kind is never the response of another. *)
FailureKind(reply) ==
  CASE reply = "empty" -> "not-found"
    [] reply \in {"errors", "httpError"} -> "upstream-error"
    [] reply = "networkError" -> "transport-error"
    [] OTHER -> "none"

C11_FailureKindsDistinct ==
  (fet.pc = "done" /\ FailureKind(fet.upstream) # "none") =>
    /\ FailureKind(fet.upstream) = "not-found" => fet.resp.status = 404
    /\ FailureKind(fet.upstream) = "upstream-error" => fet.resp.body = "data.errors"
    /\ \A r \in FetchReplies :
         FailureKind(r) \notin {"none", FailureKind(fet.upstream)}
           => FetchResponse(r) # fet.resp

(* C12: with a shop configuration that cannot be parsed or is no list of shops,
   or without the representative shop in it, the process never listens: no
   fetch or update request is ever served. *)
C12_BadConfigNeverServes ==
  config # "ok" =>
    /\ proc \in {"boot", "exited"}
    /\ fet = IdleFetch
    /\ upd = IdleUpdate
    /\ calls = <<>>
    /\ memorySnapshot = EmptyObject

\* the process has exited at startup for want of the representative shop
C12_Witness == config = "noRepresentative" /\ proc = "exited"

(* C13: an outbound update call for a row with sku s is issued only after a
   fetch of s has completed successfully. *)
C13_CallOnlyAfterFetch ==
  \A k \in 1..Len(calls) : calls[k].sku \in DOMAIN fetchedIds

(* C14: an entry of the Snapshot Store is never removed: every sku that has an
   entry keeps one across every step of the server. *)
C14_EntriesNeverRemoved ==
  [][ \A s \in DOMAIN memorySnapshot : s \in DOMAIN memorySnapshot' ]_vars

\* two skus have entries and a later fetch of one of them has failed
C14_Witness ==
  /\ Cardinality(DOMAIN memorySnapshot) = 2
  /\ fet.pc = "done" /\ fet.upstream \in {"empty", "networkError"}
  /\ fet.sku \in DOMAIN memorySnapshot

(* C15: within one update request at most one outbound call is in flight: only
   the call issued last can be unsettled, and only while the handler awaits it;
   every earlier call of the request has returned or failed. *)
C15_OneCallInFlight ==
  \A k \in 1..Len(calls) :
    calls[k].outcome = "pending" => (k = Len(calls) /\ upd.pc = "await")

\* a second call is in flight after the first has settled, with a fetch under way
C15_Witness ==
  /\ Len(calls) >= 2
  /\ calls[1].outcome # "pending"
  /\ calls[Len(calls)].outcome = "pending"
  /\ fet.pc = "await"

(* C16: every outbound call names the variant by the numeric identifier that
   was read from the snapshot when its row started: the identifier is read
   anew only when a row starts, and a call for a later shop of the same row
   carries the reference of the call before it, whatever a fetch has written
   in between. *)
C16_IdReadOncePerRow ==
  [][ (upd'.pc = "await" /\ calls' # calls) =>
        LET new == calls'[Len(calls')] IN
          /\ new.ref = Interpolate(upd'.fetched)
          /\ IF upd.pc = "await" /\ upd'.i = upd.i
               THEN /\ upd'.fetched = upd.fetched
                    /\ new.ref = calls[Len(calls)].ref
               ELSE upd'.fetched = Get(memorySnapshot', new.sku) ]_vars

(* C17: no step of the update handler changes the Snapshot Store. *)
C17_UpdateNeverWritesSnapshot ==
  [][ upd' # upd => memorySnapshot' = memorySnapshot ]_vars

\* an update request with calls made has been answered while the store holds entries
C17_Witness ==
  /\ upd.pc = "done"
  /\ upd.resp.status = 200
  /\ Len(calls) >= 1
  /\ memorySnapshot # EmptyObject

(* C18: a fetch that ends in an upstream error payload, in a reply without
   data or in a rejected call leaves the Snapshot Store unchanged; the store
   changes only in the step in which a fetch answers 200, and in the second
   server only for a found variant, whose entry then holds the numeric
   identifier taken from the variant's id. *)
C18_SnapshotWrittenOnlyOnSuccess ==
  [][ /\ (fet'.pc = "done" /\ fet'.upstream \in FetchReplies \ {"found", "empty"})
        => memorySnapshot' = memorySnapshot
      /\ memorySnapshot' # memorySnapshot =>
           /\ fet.pc # "done" /\ fet'.pc = "done"
           /\ fet'.resp.status = 200
           /\ variant = 2 =>
                /\ fet'.upstream = "found"
                /\ Get(memorySnapshot', fet'.sku).hasNumericVariantId ]_vars

\* a fetch of a sku without an entry has ended in an upstream error payload
C18_Witness ==
  /\ fet.pc = "done"
  /\ fet.upstream = "errors"
  /\ fet.resp.status = 500
  /\ memorySnapshot # EmptyObject
  /\ fet.sku \notin DOMAIN memorySnapshot

(* C19: a request has a response exactly when its handler has ended, and a
   response once sent is never replaced by another; an update request issues
   at most one call per (row, shop) pair of its lists; and, every awaited call
   settling, a fetch or update request that awaits a call is answered in the
   end. *)
C19_EveryRequestAnsweredOnce ==
  /\ [](/\ (fet.pc = "done") <=> (fet.resp.status # 0)
        /\ (upd.pc = "done") <=> (upd.resp.status # 0)
        /\ Len(calls) <= Len(upd.rows) * Len(upd.shops))
  /\ [][ /\ fet.pc = "done" => fet' \in {fet, IdleFetch}
         /\ upd.pc = "done" => upd' \in {upd, IdleUpdate} ]_vars
  /\ (fet.pc = "await") ~> (fet.pc = "done")
  /\ (upd.pc = "await") ~> (upd.pc = "done")

\* an update request is answered after its second call while a fetch awaits its reply
C19_Witness ==
  /\ upd.pc = "done"
  /\ Len(calls) = 2
  /\ upd.resp.status = 200
  /\ fet.pc = "await"

====
